---------------------------- MODULE Spec2Model ----------------------------
(***************************************************************************)
(* Model of src/main.py: trading_strategy (indicator columns and the       *)
(* FLAT / IN_POSITION scan over the bars) and backtest_strategy (pairing   *)
(* of the signals, fee/tax/slippage accounting, final valuation).          *)
(*                                                                         *)
(* Rows keep the source's 0-based positions: a column is a function whose  *)
(* domain is the set of rows where pandas holds a number; a row outside    *)
(* the domain is NaN.  df.index[i] is modelled by the row number i.        *)
(* Prices and volumes are whole numbers.  Percentages are compared by      *)
(* cross-multiplication, so the comparisons are exact.  The RSI is carried *)
(* in whole points (rounded down) and money in 1/MONEY_SCALE of a currency *)
(* unit (rounded down after every product with a rate).                    *)
(***************************************************************************)
EXTENDS Integers, Sequences, FiniteSets, TLC

(* ------------------------- program parameters ------------------------- *)
MA_PERIOD     == 20
RSI_PERIOD    == 14
MAX_HOLD_DAYS == 20
MA50_WINDOW   == 50
BAND_WINDOW   == 50
VOLUME_WINDOW == 10
\* PROFIT_TARGET = 0.05, STOP_LOSS = -0.03 and the 0.02 trail, in percent
PROFIT_TARGET == 5
STOP_LOSS     == -3
TRAIL_PCT     == 2
\* FEE_RATE = 0.001425, TAX_RATE = 0.003, slippage base 0.001, in 1/RATE_DEN
FEE_RATE      == 1425
TAX_RATE      == 3000
SLIPPAGE_BASE == 1000
RATE_DEN      == 1000000
\* money is kept in 1/MONEY_SCALE of a currency unit
MONEY_SCALE   == 1000

None == [none |-> TRUE]

(* ------------------------------ bounds -------------------------------- *)
\* number of freely chosen closes after the dip bar of an input series
FreeLen == 3

(* --------------------------- input series ----------------------------- *)
\* a sequence s as a column over rows 0..Len(s)-1
AsColumn(s) == [j \in 0..(Len(s) - 1) |-> s[j + 1]]

Rows(col) == DOMAIN col

\* closes start, start+1, ..., one per bar
Ramp(start, len) == [j \in 1..len |-> start + j - 1]

\* closes reached from p by the successive moves ds
RECURSIVE Walk(_, _)
Walk(p, ds) ==
    IF ds = <<>> THEN <<>>
    ELSE <<p + Head(ds)>> \o Walk(p + Head(ds), Tail(ds))

\* len closes alternating p+1, p, p+1, ...
Osc(p, len) == [j \in 1..len |-> IF j % 2 = 1 THEN p + 1 ELSE p]

LastOf(s, dflt) == IF s = <<>> THEN dflt ELSE s[Len(s)]

Deltas == {0 - 3, 1, 4, 20}

\* A ramp rising by one per bar from 51, a dip of 12, the free moves, then
\* oscLen alternating bars.
ShapedCloses(rampLen, free, oscLen) ==
    LET ramp == Ramp(51, rampLen)
        dip  == ramp[rampLen] - 12
        walk == Walk(dip, free)
    IN  ramp \o <<dip>> \o walk \o Osc(LastOf(walk, dip), oscLen)

\* volume is flat on the ramp and, when rising, grows on every later bar
ShapedVolumes(rampLen, len, rising) ==
    [j \in 1..len |-> IF rising /\ j > rampLen
                      THEN 100 + 10 * (j - rampLen) ELSE 100]

Shaped(rampLen, free, oscLen, rising, cap) ==
    LET c == ShapedCloses(rampLen, free, oscLen)
    IN  [close   |-> AsColumn(c),
         volume  |-> AsColumn(ShapedVolumes(rampLen, Len(c), rising)),
         capital |-> cap]

Constant(len, price, cap) ==
    [close   |-> AsColumn([j \in 1..len |-> price]),
     volume  |-> AsColumn([j \in 1..len |-> 100]),
     capital |-> cap]

FreeTails == [1..FreeLen -> Deltas]

\* dip on the first row where every column is defined (row 62, close 100)
MainInputs ==
    { Shaped(62, f, o, TRUE, cap) :
        f \in FreeTails, o \in {0, MAX_HOLD_DAYS}, cap \in {50, 10000} }

\* dip inside the warm-up rows, or without the volume surge
SideInputs ==
    { Shaped(r, f, 0, TRUE, 10000) : r \in {30, 61}, f \in FreeTails }
    \cup { Shaped(62, f, 0, FALSE, 10000) : f \in FreeTails }

EdgeInputs ==
    { Constant(len, 100, 10000) : len \in {0, 5, 70} }

\* the shaped series on a hundredfold volume, with a single share traded on
\* the bar after the dip
Thin(rampLen, free, cap) ==
    LET c == ShapedCloses(rampLen, free, 0)
        v == ShapedVolumes(rampLen, Len(c), TRUE)
    IN  [close   |-> AsColumn(c),
         volume  |-> AsColumn([j \in 1..Len(c) |->
                                 IF j = rampLen + 2 THEN 1 ELSE 100 * v[j]]),
         capital |-> cap]

ThinInputs == { Thin(62, f, 10000) : f \in FreeTails }

\* the shaped series with a negative volume on one bar of the ramp
BadVolume(rampLen, free, cap) ==
    LET c == ShapedCloses(rampLen, free, 0)
        v == ShapedVolumes(rampLen, Len(c), TRUE)
    IN  [close   |-> AsColumn(c),
         volume  |-> AsColumn([j \in 1..Len(c) |->
                                 IF j = 6 THEN 0 - v[j] ELSE v[j]]),
         capital |-> cap]

MalformedInputs ==
    { BadVolume(62, [j \in 1..FreeLen |-> d], 10000) : d \in Deltas }

\* a capital that pays for a round hundred shares on the dip with less than
\* the buy fee to spare
TightInputs == { Shaped(62, f, 0, TRUE, 10010) : f \in FreeTails }

Inputs ==
    MainInputs \cup SideInputs \cup EdgeInputs \cup ThinInputs
        \cup MalformedInputs \cup TightInputs

(* ------------------------------- state -------------------------------- *)
VARIABLES
    Close, Volume,          \* df['Close'], df['Volume']
    initial_capital,        \* argument of backtest_strategy
    MA, MA50, RSI,          \* df['MA'], df['MA50'], df['RSI']
    RSI_OVERSOLD,           \* the rolling mean - 2 std series of the RSI
    Volume_MA,              \* df['Volume_MA']
    pc,                     \* position of the run in the two functions
    i,                      \* loop variable of the scan
    position, hold_days, trailing_stop,
    buy_signals, sell_signals,
    capital, shares, trades,
    k,                      \* number of (buy, sell) pairs already consumed
    final_value

columns == <<MA, MA50, RSI, RSI_OVERSOLD, Volume_MA>>
inputs  == <<Close, Volume, initial_capital>>
scan    == <<i, position, hold_days, trailing_stop, buy_signals, sell_signals>>
books   == <<capital, shares, trades, k, final_value>>
vars    == <<inputs, columns, pc, scan, books>>

len == Cardinality(Rows(Close))

(* ---------------------------- indicators ------------------------------ *)
RECURSIVE SumOver(_, _, _)
SumOver(col, lo, hi) ==
    IF lo > hi THEN 0 ELSE col[hi] + SumOver(col, lo, hi - 1)

\* col.rolling(window=w): defined on the rows whose w trailing rows are all
\* defined; the value kept is the window sum (w times the rolling mean)
RollingSum(col, w) ==
    LET ok == {j \in Rows(col) : j >= w - 1 /\ (j - w + 1)..j \subseteq Rows(col)}
    IN  [j \in ok |-> SumOver(col, j - w + 1, j)]

\* col.diff()
Diff(col) ==
    [j \in {r \in Rows(col) : r - 1 \in Rows(col)} |-> col[j] - col[j - 1]]

\* delta.where(delta > 0, 0): a NaN delta fails the test and becomes 0
GainOf(close) ==
    LET delta == Diff(close)
    IN  [j \in Rows(close) |->
            IF j \in Rows(delta) /\ delta[j] > 0 THEN delta[j] ELSE 0]

\* -delta.where(delta < 0, 0)
LossOf(close) ==
    LET delta == Diff(close)
    IN  [j \in Rows(close) |->
            IF j \in Rows(delta) /\ delta[j] < 0 THEN 0 - delta[j] ELSE 0]

\* 100 - 100 / (1 + gain / loss), in whole points: 0/0 is NaN, g/0 is inf
\* and gives 100
RsiValue(g, l) == IF l = 0 THEN 100 ELSE (100 * g) \div (g + l)

RsiOf(close) ==
    LET gain == RollingSum(GainOf(close), RSI_PERIOD)
        loss == RollingSum(LossOf(close), RSI_PERIOD)
        ok   == {j \in Rows(gain) : ~(gain[j] = 0 /\ loss[j] = 0)}
    IN  [j \in ok |-> RsiValue(gain[j], loss[j])]

\* the two window moments of the RSI from which mean - 2 * std is taken
OversoldOf(rsi) ==
    LET s == RollingSum(rsi, BAND_WINDOW)
        q == RollingSum([j \in Rows(rsi) |-> rsi[j] * rsi[j]], BAND_WINDOW)
    IN  [j \in Rows(s) |-> [sum |-> s[j], sumsq |-> q[j]]]

\* r < mean - 2 * std, with mean = sum / n and the sample variance
\* (n * sumsq - sum^2) / (n * (n - 1)), n = BAND_WINDOW
BelowBand(r, band) ==
    LET n == BAND_WINDOW
        d == band.sum - n * r
        v == n * band.sumsq - band.sum * band.sum
    IN  d > 0 /\ (n - 1) * d * d > 4 * n * v

(* ------------------------------ actions ------------------------------- *)
Init ==
    /\ \E in \in Inputs :
        /\ Close = in.close
        /\ Volume = in.volume
        /\ initial_capital = in.capital * MONEY_SCALE
    /\ MA = <<>> /\ MA50 = <<>> /\ RSI = <<>>
    /\ RSI_OVERSOLD = <<>> /\ Volume_MA = <<>>
    /\ pc = "indicators"
    /\ i = 0
    /\ position = None /\ hold_days = 0 /\ trailing_stop = None
    /\ buy_signals = <<>> /\ sell_signals = <<>>
    /\ capital = 0 /\ shares = 0 /\ trades = <<>> /\ k = 0
    /\ final_value = None

\* lines 44-67: the indicator columns and the scan's initial state
ComputeIndicators ==
    /\ pc = "indicators"
    /\ MA' = RollingSum(Close, MA_PERIOD)
    /\ MA50' = RollingSum(Close, MA50_WINDOW)
    /\ RSI' = RsiOf(Close)
    /\ RSI_OVERSOLD' = OversoldOf(RSI')
    /\ Volume_MA' = RollingSum(Volume, VOLUME_WINDOW)
    /\ buy_signals' = <<>> /\ sell_signals' = <<>>
    /\ position' = None /\ hold_days' = 0 /\ trailing_stop' = None
    /\ i' = MA_PERIOD
    /\ pc' = "scan"
    /\ UNCHANGED <<inputs, books>>

(* ------------------------ the scan, lines 69-111 ----------------------- *)
\* df['MA50'].diff().iloc[j] > 0
MA50Rising(j) ==
    j \in Rows(MA50) /\ j - 1 \in Rows(MA50) /\ MA50[j] - MA50[j - 1] > 0

\* the buy test without the volume filter of line 74
BuyCondition_NoVolume(j) ==
    /\ j \in Rows(MA) /\ Close[j] * MA_PERIOD < MA[j]
    /\ j \in Rows(RSI) /\ j \in Rows(RSI_OVERSOLD)
    /\ BelowBand(RSI[j], RSI_OVERSOLD[j])
    /\ MA50Rising(j)

\* the buy test passing the RSI test while the oversold band is still NaN
BuyCondition_BandOptional(j) ==
    /\ j \in Rows(MA) /\ Close[j] * MA_PERIOD < MA[j]
    /\ j \in Rows(RSI)
    /\ j \in Rows(RSI_OVERSOLD) => BelowBand(RSI[j], RSI_OVERSOLD[j])
    /\ MA50Rising(j)
    /\ j \in Rows(Volume_MA) /\ Volume[j] * VOLUME_WINDOW > Volume_MA[j]

\* the buy test written so that an undefined column passes its comparison
BuyCondition_NaNPasses(j) ==
    /\ j \in Rows(MA) => Close[j] * MA_PERIOD < MA[j]
    /\ (j \in Rows(RSI) /\ j \in Rows(RSI_OVERSOLD))
          => BelowBand(RSI[j], RSI_OVERSOLD[j])
    /\ (j \in Rows(MA50) /\ j - 1 \in Rows(MA50)) => MA50[j] - MA50[j - 1] > 0
    /\ j \in Rows(Volume_MA) => Volume[j] * VOLUME_WINDOW > Volume_MA[j]

\* lines 71-74; a comparison with NaN is False
BuyCondition(j) ==
    /\ j \in Rows(MA) /\ Close[j] * MA_PERIOD < MA[j]
    /\ j \in Rows(RSI) /\ j \in Rows(RSI_OVERSOLD)
    /\ BelowBand(RSI[j], RSI_OVERSOLD[j])
    /\ MA50Rising(j)
    /\ j \in Rows(Volume_MA) /\ Volume[j] * VOLUME_WINDOW > Volume_MA[j]

\* stops are kept in hundredths of a price unit
InitialStop(buy_price) == buy_price * (100 + STOP_LOSS)
TrailedStop(price) == price * (100 - TRAIL_PCT)

\* lines 97-99
HighestAfter(pos, price) ==
    IF price > pos.highest_price THEN price ELSE pos.highest_price
\* the stop recomputed from every close, not only from a new high
StopAfter_FollowsPrice(pos, stop, price) == TrailedStop(price)

StopAfter(pos, stop, price) ==
    IF price > pos.highest_price THEN TrailedStop(price) ELSE stop

\* the profit test with > for >=
TargetReached_Strict(pos, price) ==
    (price - pos.buy_price) * 100 > PROFIT_TARGET * pos.buy_price

\* (current_price - buy_price) / buy_price >= PROFIT_TARGET
TargetReached(pos, price) ==
    (price - pos.buy_price) * 100 >= PROFIT_TARGET * pos.buy_price
\* the stop test with < for <=
StopHit_Strict(stop, price) == price * 100 < stop

\* current_price <= trailing_stop
StopHit(stop, price) == price * 100 <= stop

\* the holding limit with > for >=
HeldTooLong_Late(days) == days > MAX_HOLD_DAYS

\* hold_days >= MAX_HOLD_DAYS
HeldTooLong(days) == days >= MAX_HOLD_DAYS

\* the exit test without the profit target
ExitCondition_NoTarget(pos, stop, days, price) ==
    \/ StopHit(stop, price)
    \/ HeldTooLong(days)

\* lines 102-104, on the values after the bar's updates
ExitCondition(pos, stop, days, price) ==
    \/ TargetReached(pos, price)
    \/ StopHit(stop, price)
    \/ HeldTooLong(days)

Signal(j, kind) == [date |-> j, price |-> Close[j], signal |-> kind]

InLoop == pc = "scan" /\ i < len

\* a buy on every bar on which no position is open
TakesBuy_Unconditional == position = None

\* the buy test without "position is None"
TakesBuy_AnyPosition == BuyCondition(i)

\* line 75 with lines 71-74
TakesBuy == BuyCondition(i) /\ position = None

\* lines 75-88
BarBuy ==
    /\ InLoop /\ TakesBuy
    /\ buy_signals' = Append(buy_signals, Signal(i, "BUY"))
    /\ position' = [buy_price |-> Close[i], buy_date |-> i,
                    highest_price |-> Close[i]]
    /\ trailing_stop' = InitialStop(Close[i])
    /\ hold_days' = 0
    /\ i' = i + 1
    /\ UNCHANGED <<inputs, columns, pc, sell_signals, books>>

\* lines 91-99, the exit test failing
BarHold ==
    /\ InLoop /\ ~TakesBuy /\ position # None
    /\ hold_days' = hold_days + 1
    /\ position' = [position EXCEPT !.highest_price = HighestAfter(position, Close[i])]
    /\ trailing_stop' = StopAfter(position, trailing_stop, Close[i])
    /\ ~ExitCondition(position', trailing_stop', hold_days', Close[i])
    /\ i' = i + 1
    /\ UNCHANGED <<inputs, columns, pc, buy_signals, sell_signals, books>>

\* the exit branch without line 110: the position is kept after the SELL
BarSell_KeepsPosition ==
    /\ InLoop /\ ~TakesBuy /\ position # None
    /\ hold_days' = hold_days + 1
    /\ ExitCondition([position EXCEPT !.highest_price = HighestAfter(position, Close[i])],
                     StopAfter(position, trailing_stop, Close[i]),
                     hold_days', Close[i])
    /\ sell_signals' = Append(sell_signals, Signal(i, "SELL"))
    /\ position' = [position EXCEPT !.highest_price = HighestAfter(position, Close[i])]
    /\ trailing_stop' = StopAfter(position, trailing_stop, Close[i])
    /\ i' = i + 1
    /\ UNCHANGED <<inputs, columns, pc, buy_signals, books>>

\* the exit branch leaving the loop on the bar of the SELL
BarSell_SameBar ==
    /\ InLoop /\ ~TakesBuy /\ position # None
    /\ hold_days' = hold_days + 1
    /\ ExitCondition([position EXCEPT !.highest_price = HighestAfter(position, Close[i])],
                     StopAfter(position, trailing_stop, Close[i]),
                     hold_days', Close[i])
    /\ sell_signals' = Append(sell_signals, Signal(i, "SELL"))
    /\ position' = None
    /\ trailing_stop' = None
    /\ i' = i
    /\ UNCHANGED <<inputs, columns, pc, buy_signals, books>>

\* lines 91-111, the exit test succeeding
BarSell ==
    /\ InLoop /\ ~TakesBuy /\ position # None
    /\ hold_days' = hold_days + 1
    /\ ExitCondition([position EXCEPT !.highest_price = HighestAfter(position, Close[i])],
                     StopAfter(position, trailing_stop, Close[i]),
                     hold_days', Close[i])
    /\ sell_signals' = Append(sell_signals, Signal(i, "SELL"))
    /\ position' = None
    /\ trailing_stop' = None
    /\ i' = i + 1
    /\ UNCHANGED <<inputs, columns, pc, buy_signals, books>>

\* neither branch of lines 71-91 is taken
BarIdle ==
    /\ InLoop /\ ~TakesBuy /\ position = None
    /\ i' = i + 1
    /\ UNCHANGED <<inputs, columns, pc, position, hold_days, trailing_stop,
                   buy_signals, sell_signals, books>>

\* line 113 and lines 126-131: the scan returns, the books are opened
ScanReturns ==
    /\ pc = "scan" /\ i >= len
    /\ capital' = initial_capital
    /\ shares' = 0
    /\ trades' = <<>>
    /\ k' = 0
    /\ pc' = "pairs"
    /\ UNCHANGED <<inputs, columns, scan, final_value>>

(* -------------------- the books, lines 126-169 ------------------------- *)
Min(a, b) == IF a < b THEN a ELSE b

\* amount * rate / RATE_DEN, rounded down, without leaving 32 bits
TimesRate(amount, rate) ==
    LET q == amount \div 1000
        r == amount % 1000
    IN  (q * rate + (r * rate) \div 1000) \div (RATE_DEN \div 1000)

\* price * df['Slippage'].iloc[j] in money units, with
\* df['Slippage'] = 0.001 * (df['Volume'].mean() / df['Volume'])
SlippageOn(j, price) ==
    (price * ((MONEY_SCALE * SLIPPAGE_BASE) \div RATE_DEN)
           * SumOver(Volume, 0, len - 1)) \div (len * Volume[j])

\* lines 136-137
EffectiveBuy(buy) == buy.price * MONEY_SCALE + SlippageOn(buy.date, buy.price)
EffectiveSell(sell) == sell.price * MONEY_SCALE - SlippageOn(sell.date, sell.price)

\* line 140: capital // buy_price
SharesFor(cap, buy_price) == cap \div buy_price

\* the trade with a recorded profit that leaves out the transaction tax
TradeOf_ProfitSkipsTax(buy, sell, cap) ==
    LET buy_price  == EffectiveBuy(buy)
        sell_price == EffectiveSell(sell)
        n          == SharesFor(cap, buy_price)
        cost       == n * buy_price
        buy_fee    == TimesRate(cost, FEE_RATE)
        revenue    == n * sell_price
        sell_fee   == TimesRate(revenue, FEE_RATE)
        tax        == TimesRate(revenue, TAX_RATE)
    IN  [buy_date |-> buy.date, buy_price |-> buy_price,
         sell_date |-> sell.date, sell_price |-> sell_price,
         profit |-> revenue - cost - buy_fee - sell_fee,
         shares |-> n,
         after_buy |-> cap - (cost + buy_fee),
         after_sell |-> (cap - (cost + buy_fee)) + (revenue - sell_fee - tax)]

\* lines 139-160 for one (buy, sell) pair, from the capital cap
TradeOf(buy, sell, cap) ==
    LET buy_price  == EffectiveBuy(buy)
        sell_price == EffectiveSell(sell)
        n          == SharesFor(cap, buy_price)
        cost       == n * buy_price
        buy_fee    == TimesRate(cost, FEE_RATE)
        revenue    == n * sell_price
        sell_fee   == TimesRate(revenue, FEE_RATE)
        tax        == TimesRate(revenue, TAX_RATE)
    IN  [buy_date |-> buy.date, buy_price |-> buy_price,
         sell_date |-> sell.date, sell_price |-> sell_price,
         profit |-> revenue - cost - buy_fee - sell_fee - tax,
         shares |-> n,
         after_buy |-> cap - (cost + buy_fee),
         after_sell |-> (cap - (cost + buy_fee)) + (revenue - sell_fee - tax)]

TradeRecord(t) ==
    [buy_date |-> t.buy_date, buy_price |-> t.buy_price,
     sell_date |-> t.sell_date, sell_price |-> t.sell_price,
     profit |-> t.profit, shares |-> t.shares]

\* the pairing stopping one pair early
Pairs_OneShort ==
    IF Min(Len(buy_signals), Len(sell_signals)) = 0 THEN 0
    ELSE Min(Len(buy_signals), Len(sell_signals)) - 1

\* zip(buy_signals, sell_signals) stops with the shorter list
Pairs == Min(Len(buy_signals), Len(sell_signals))

\* one iteration of the loop of line 133
PairTrade ==
    /\ pc = "pairs" /\ k < Pairs
    /\ LET t == TradeOf(buy_signals[k + 1], sell_signals[k + 1], capital)
       IN  /\ shares' = t.shares
           /\ capital' = t.after_sell
           /\ trades' = Append(trades, TradeRecord(t))
    /\ k' = k + 1
    /\ UNCHANGED <<inputs, columns, pc, scan, final_value>>

\* line 162
FinalValue(cap, n) ==
    cap + (IF n > 0 THEN n * Close[len - 1] * MONEY_SCALE ELSE 0)

\* lines 162-169
Valuate ==
    /\ pc = "pairs" /\ k >= Pairs
    /\ final_value' = FinalValue(capital, shares)
    /\ pc' = "done"
    /\ UNCHANGED <<inputs, columns, scan, capital, shares, trades, k>>

\* the dict returned at lines 163-169
Result ==
    [trades |-> trades, final_capital |-> capital, final_value |-> final_value,
     total_profit |-> final_value - initial_capital, num_trades |-> Len(trades)]

Next ==
    \/ ComputeIndicators
    \/ BarBuy
    \/ BarHold
    \/ BarSell
    \/ BarIdle
    \/ ScanReturns
    \/ PairTrade
    \/ Valuate

Spec == Init /\ [][Next]_vars

(* ------------------------------ claims -------------------------------- *)
Buys == Len(buy_signals)
Sells == Len(sell_signals)
Open == position # None

\* the two signal lists merged in bar order
RECURSIVE Merge(_, _)
Merge(bs, ss) ==
    IF bs = <<>> THEN ss
    ELSE IF ss = <<>> THEN bs
    ELSE IF Head(bs).date <= Head(ss).date
         THEN <<Head(bs)>> \o Merge(Tail(bs), ss)
         ELSE <<Head(ss)>> \o Merge(bs, Tail(ss))

\* C1: at every point of the run the emitted signals, merged in bar order,
\* read BUY, SELL, BUY, SELL, ... starting with BUY (or are empty), each on
\* a later bar than the one before.
C1_SignalsAlternate ==
    LET m == Merge(buy_signals, sell_signals)
    IN  \A n \in 1..Len(m) :
            /\ m[n].signal = (IF n % 2 = 1 THEN "BUY" ELSE "SELL")
            /\ n > 1 => m[n - 1].date < m[n].date

\* a run that emitted two full BUY, SELL rounds
C1_Witness == pc = "pairs" /\ Buys >= 2 /\ Sells >= 2

\* C2: after every loop iteration the position is open exactly when there
\* is one more BUY than SELLs, and otherwise the two counts are equal.
C2_OnePosition ==
    /\ Open <=> Buys = Sells + 1
    /\ ~Open <=> Buys = Sells

\* a second position is open after the first one was closed
C2_Witness == pc = "scan" /\ Open /\ Buys = 2 /\ Sells = 1

\* C3: when the scan ended FLAT, final_value equals final_capital (and
\* total_profit is final_value minus the starting capital); only a scan that
\* ended IN_POSITION adds share count x last close.
C3_FlatValuation ==
    pc = "done" =>
        /\ Result.total_profit = Result.final_value - initial_capital
        /\ ~Open => Result.final_value = Result.final_capital
        /\ Open => Result.final_value
                      = Result.final_capital + shares * Close[len - 1] * MONEY_SCALE

\* C4: the number of trades is min(BUYs, SELLs) and at most the BUYs; there
\* is at most one more BUY than SELLs; a position open at the end of the
\* series leaves its BUY without SELL and without trade record.
C4_TradeCount ==
    /\ Buys - Sells \in {0, 1}
    /\ Len(trades) <= Buys
    /\ pc = "done" =>
        /\ Result.num_trades = Min(Buys, Sells)
        /\ Open =>
            /\ Sells = Buys - 1
            /\ Len(trades) = Buys - 1
            /\ buy_signals[Buys].date = position.buy_date
            /\ \A n \in 1..Len(trades) : trades[n].buy_date # position.buy_date
            /\ \A n \in 1..Sells : sell_signals[n].date < position.buy_date

\* a finished run with a completed trade and a trailing open position
C4_Witness == pc = "done" /\ Open /\ Len(trades) >= 1

\* the highest close of rows lo..hi
RECURSIVE MaxClose(_, _)
MaxClose(lo, hi) ==
    IF lo >= hi THEN Close[lo]
    ELSE LET m == MaxClose(lo, hi - 1)
         IN  IF Close[hi] > m THEN Close[hi] ELSE m

\* the stop (in hundredths) in force on row j for a position entered on row
\* d at price b: 2% under the highest close since entry once a close has
\* exceeded the entry price, 3% under the entry price before that
StopOn(b, d, j) ==
    LET peak == MaxClose(d, j)
    IN  IF peak > b THEN peak * (100 - TRAIL_PCT) ELSE b * (100 + STOP_LOSS)

\* one of the two price exits holds on row j for that position
PriceExit(b, d, j) ==
    \/ (Close[j] - b) * 100 >= PROFIT_TARGET * b
    \/ Close[j] * 100 <= StopOn(b, d, j)

\* C5: on a bar that starts IN_POSITION (always a bar after the entry bar) a
\* SELL at that bar's close is emitted if and only if the unrealized return
\* is at least PROFIT_TARGET, or the close is at or below the trailing stop
\* as updated on that bar, or the bars held reach MAX_HOLD_DAYS; otherwise
\* the position stays open.
C5_SellIffExit ==
    [][ (InLoop /\ Open) =>
          LET b    == position.buy_price
              d    == position.buy_date
              exit == PriceExit(b, d, i) \/ i - d >= MAX_HOLD_DAYS
              sold == sell_signals'
                        = Append(sell_signals,
                                 [date |-> i, price |-> Close[i], signal |-> "SELL"])
          IN  /\ i > d
              /\ exit <=> sold
              /\ sold => position' = None
              /\ ~sold => sell_signals' = sell_signals /\ position' # None
      ]_vars

\* a SELL above the entry price, below the target and before the holding
\* limit: only the tightened trailing stop can have triggered it
C5_Witness ==
    \E n \in 1..Sells :
        /\ sell_signals[n].price > buy_signals[n].price
        /\ (sell_signals[n].price - buy_signals[n].price) * 100
              < PROFIT_TARGET * buy_signals[n].price
        /\ sell_signals[n].date - buy_signals[n].date < MAX_HOLD_DAYS

\* C6 as stated: a position bought at 100 whose close rises to 120 and then
\* drops to 117 is still open at 117 and is sold there, at 117.
C6_SoldAt117 ==
    \A n \in 1..Buys :
        LET d == buy_signals[n].date
        IN  ( /\ buy_signals[n].price = 100
              /\ d + 2 < i
              /\ Close[d + 1] = 120 /\ Close[d + 2] = 117 )
            => /\ Sells >= n
               /\ sell_signals[n].date = d + 2
               /\ sell_signals[n].price = 117

\* C6 amended: a position bought at 100 and still open on a bar whose close
\* is 120 is sold on that bar at 120 by the profit target, so no open
\* position bought at 100 has a highest_price of 105 or more and its stop
\* stays below 117.6; bought at 100, rising to 104 and dropping to 101, it
\* is sold at 101 by the trailing stop (101.92).
C6_SoldAt120 ==
    /\ \A n \in 1..Buys :
        LET d == buy_signals[n].date
        IN  /\ \A j \in (d + 1)..(i - 1) :
                 ( /\ buy_signals[n].price = 100 /\ Close[j] = 120
                   /\ Sells >= n => sell_signals[n].date >= j )
                 => /\ Sells >= n
                    /\ sell_signals[n].date = j
                    /\ sell_signals[n].price = 120
            /\ ( /\ buy_signals[n].price = 100 /\ d + 2 < i
                 /\ Close[d + 1] = 104 /\ Close[d + 2] = 101 )
               => /\ Sells >= n
                  /\ sell_signals[n].date = d + 2
                  /\ sell_signals[n].price = 101
    /\ (Open /\ position.buy_price = 100)
          => position.highest_price < 105 /\ trailing_stop < 11760

\* bought at 100, sold at 120 on the next bar, and the close then fell to 117
C6_Witness ==
    \E n \in 1..Sells :
        /\ buy_signals[n].price = 100
        /\ sell_signals[n].price = 120
        /\ sell_signals[n].date = buy_signals[n].date + 1
        /\ sell_signals[n].date + 1 < i
        /\ Close[sell_signals[n].date + 1] = 117

\* C7: every SELL comes 1..MAX_HOLD_DAYS bars after its BUY; when neither
\* price exit holds on the MAX_HOLD_DAYS - 1 bars after the BUY bar and the
\* series has the bar MAX_HOLD_DAYS rows after it, the SELL is on exactly
\* that bar, at that bar's close whatever it is.
C7_MaxHold ==
    /\ \A n \in 1..Sells :
        sell_signals[n].date - buy_signals[n].date \in 1..MAX_HOLD_DAYS
    /\ Open => (i - 1) - position.buy_date < MAX_HOLD_DAYS
    /\ \A n \in 1..Buys :
        LET b == buy_signals[n].price
            d == buy_signals[n].date
        IN  ( /\ d + MAX_HOLD_DAYS < i
              /\ \A j \in (d + 1)..(d + MAX_HOLD_DAYS - 1) : ~PriceExit(b, d, j) )
            => /\ Sells >= n
               /\ sell_signals[n].date = d + MAX_HOLD_DAYS
               /\ sell_signals[n].price = Close[d + MAX_HOLD_DAYS]

\* a SELL forced by the holding limit alone
C7_Witness ==
    \E n \in 1..Sells :
        /\ sell_signals[n].date = buy_signals[n].date + MAX_HOLD_DAYS
        /\ ~PriceExit(buy_signals[n].price, buy_signals[n].date, sell_signals[n].date)

\* C8: on a bar that starts FLAT a BUY at that bar's close is emitted if and
\* only if close < 20-bar mean of the close, RSI < oversold band, the 50-bar
\* mean of the close is above the one of the previous bar, and volume >
\* 10-bar mean of the volume (each with its window filled); the BUY creates
\* the position with entry price = highest_price = close, zero days held and
\* the stop at close x (1 + STOP_LOSS).
C8_BuyIffEntry ==
    [][ (InLoop /\ ~Open) =>
          LET c      == Close[i]
              entry  ==
                  /\ i >= MA_PERIOD - 1
                  /\ c * MA_PERIOD < SumOver(Close, i - MA_PERIOD + 1, i)
                  /\ i \in Rows(RSI) /\ i \in Rows(RSI_OVERSOLD)
                  /\ BelowBand(RSI[i], RSI_OVERSOLD[i])
                  /\ i >= MA50_WINDOW
                  /\ SumOver(Close, i - MA50_WINDOW + 1, i)
                        > SumOver(Close, i - MA50_WINDOW, i - 1)
                  /\ i >= VOLUME_WINDOW - 1
                  /\ Volume[i] * VOLUME_WINDOW
                        > SumOver(Volume, i - VOLUME_WINDOW + 1, i)
              bought == buy_signals'
                          = Append(buy_signals,
                                   [date |-> i, price |-> c, signal |-> "BUY"])
          IN  /\ entry <=> bought
              /\ bought =>
                  /\ position' = [buy_price |-> c, buy_date |-> i,
                                  highest_price |-> c]
                  /\ hold_days' = 0
                  /\ trailing_stop' = c * (100 + STOP_LOSS)
              /\ ~bought => buy_signals' = buy_signals /\ position' = None
      ]_vars

\* the position just created by a BUY at 100
C8_Witness ==
    /\ pc = "scan" /\ Open /\ hold_days = 0
    /\ position.buy_date = i - 1
    /\ position.buy_price = 100 /\ position.highest_price = 100
    /\ trailing_stop = 9700

\* C9: the stop starts at entry x (1 + STOP_LOSS), never decreases from one
\* bar to the next while the position is open, and is always strictly below
\* highest_price.
C9_StopOnlyTightens ==
    [][ /\ (~Open /\ Open') =>
              trailing_stop' = position'.buy_price * (100 + STOP_LOSS)
        /\ (Open /\ Open') =>
              /\ position'.buy_date = position.buy_date
              /\ trailing_stop' >= trailing_stop
        /\ Open' => trailing_stop' < position'.highest_price * 100
      ]_vars

\* an open position whose stop was tightened and whose close then fell back
C9_Witness ==
    /\ pc = "scan" /\ Open
    /\ trailing_stop > position.buy_price * (100 + STOP_LOSS)
    /\ Close[i - 1] < position.highest_price

\* every column read by the buy test holds a number on row j
AllDefined(j) ==
    /\ j \in Rows(MA)
    /\ j \in Rows(MA50) /\ j - 1 \in Rows(MA50)
    /\ j \in Rows(RSI) /\ j \in Rows(RSI_OVERSOLD)
    /\ j \in Rows(Volume_MA)

\* C10: no BUY is emitted on a bar where one of the columns read by the buy
\* test is undefined, and no signal at all is emitted in the leading rows
\* before the first bar on which all of them are defined.
C10_NoSignalInWarmUp ==
    /\ \A n \in 1..Buys : AllDefined(buy_signals[n].date)
    /\ \A n \in 1..Sells : \E j \in 0..(sell_signals[n].date - 1) : AllDefined(j)

\* the scan has passed a warm-up bar (oversold band still undefined) whose
\* close is under its 20-bar mean on surging volume, without any signal
C10_Witness ==
    /\ pc = "scan" /\ i > MA_PERIOD /\ Buys = 0
    /\ ~AllDefined(i - 1)
    /\ i - 1 \in Rows(RSI) /\ MA50Rising(i - 1)
    /\ Close[i - 1] * MA_PERIOD < MA[i - 1]
    /\ Volume[i - 1] * VOLUME_WINDOW > Volume_MA[i - 1]

\* the longest of the rolling windows
LongestWindow ==
    LET ws == {MA_PERIOD, MA50_WINDOW, RSI_PERIOD, BAND_WINDOW, VOLUME_WINDOW}
    IN  CHOOSE w \in ws : \A x \in ws : x <= w

\* C11: on a series with fewer rows than the longest rolling window (the
\* empty series included) no signal is emitted and no trade recorded, and
\* the run ends with num_trades = 0, total_profit = 0 and final_value =
\* final_capital = starting capital.
C11_ShortSeries ==
    len < LongestWindow =>
        /\ buy_signals = <<>> /\ sell_signals = <<>> /\ trades = <<>>
        /\ pc = "done" =>
            /\ Result.num_trades = 0
            /\ Result.total_profit = 0
            /\ Result.final_value = initial_capital
            /\ Result.final_capital = initial_capital

\* a finished run on a short series that has a bar under its 20-bar mean on
\* surging volume
C11_Witness ==
    /\ pc = "done" /\ len < LongestWindow
    /\ \E j \in Rows(MA) :
          /\ Close[j] * MA_PERIOD < MA[j]
          /\ Volume[j] * VOLUME_WINDOW > Volume_MA[j]

\* the sum of the profits of the first n recorded trades
RECURSIVE ProfitUpTo(_)
ProfitUpTo(n) == IF n = 0 THEN 0 ELSE trades[n].profit + ProfitUpTo(n - 1)

\* the capital available before the n-th recorded trade
CapitalBefore(n) == initial_capital + ProfitUpTo(n - 1)

\* C12: every recorded trade has buy_price = BUY price x (1 + slippage on
\* the BUY bar) and shares = floor(capital before the trade / buy_price), so
\* that shares x buy_price does not exceed that capital, and its share count
\* is a non-negative whole number.
C12_SharesFloor ==
    \A n \in 1..Len(trades) :
        LET t   == trades[n]
            cap == CapitalBefore(n)
        IN  /\ t.buy_price = buy_signals[n].price * MONEY_SCALE
                               + SlippageOn(buy_signals[n].date, buy_signals[n].price)
            /\ t.shares * t.buy_price <= cap
            /\ cap < (t.shares + 1) * t.buy_price
            /\ t.shares \in Nat

\* C13: a trade whose available capital is below one share's effective buy
\* price is recorded with shares = 0 and profit = 0 and leaves the capital
\* as it was.
C13_ZeroShareTrade ==
    \A n \in 1..Len(trades) :
        CapitalBefore(n) < trades[n].buy_price =>
            /\ trades[n].shares = 0
            /\ trades[n].profit = 0
            /\ CapitalBefore(n + 1) = CapitalBefore(n)

ConstantSeries == \A j \in Rows(Close) : Close[j] = Close[0]

\* C14: on a series whose closes are all equal no BUY is emitted, the trade
\* list is empty and final_value is the starting capital.
C14_ConstantSeries ==
    ConstantSeries =>
        /\ buy_signals = <<>>
        /\ trades = <<>>
        /\ pc = "done" => final_value = initial_capital

\* a finished run on a constant series longer than every window
C14_Witness == pc = "done" /\ ConstantSeries /\ len > LongestWindow

\* C15: on every row whose 14-bar average loss is zero the RSI is exactly
\* 100, whether the average gain is positive or zero as well.
C15_RsiAtZeroLoss ==
    pc # "indicators" =>
        LET loss == RollingSum(LossOf(Close), RSI_PERIOD)
        IN  \A j \in Rows(loss) :
                loss[j] = 0 => j \in Rows(RSI) /\ RSI[j] = 100

Malformed == \E j \in Rows(Close) : Close[j] < 0 \/ Volume[j] < 0

\* C16: a series with a negative price or volume is rejected before any
\* indicator is computed: no column is filled, no signal is emitted and no
\* trade is recorded.
C16_MalformedRejected ==
    Malformed =>
        /\ \A col \in {MA, MA50, RSI, RSI_OVERSOLD, Volume_MA} : Rows(col) = {}
        /\ buy_signals = <<>> /\ sell_signals = <<>>
        /\ trades = <<>>

\* C17: the k-th trade pairs the k-th BUY with the k-th SELL, the SELL that
\* closed it; its sell date is strictly later than its buy date, and each
\* trade's buy date is strictly later than the previous trade's sell date.
C17_TradesOrdered ==
    /\ \A n \in 1..Sells :
          /\ n <= Buys
          /\ buy_signals[n].date < sell_signals[n].date
          /\ n < Buys => sell_signals[n].date < buy_signals[n + 1].date
    /\ \A n \in 1..Len(trades) :
          /\ trades[n].buy_date = buy_signals[n].date
          /\ trades[n].sell_date = sell_signals[n].date
          /\ trades[n].sell_date > trades[n].buy_date
          /\ n > 1 => trades[n].buy_date > trades[n - 1].sell_date

\* two trades, the second bought on the bar after the first was sold
C17_Witness ==
    /\ Len(trades) >= 2
    /\ trades[2].buy_date = trades[1].sell_date + 1

\* C18: the cash is never negative: it covers the cost and the buy fee after
\* the buy leg of every trade, and is not negative after any trade.
C18_CashNeverNegative ==
    /\ capital >= 0
    /\ \A n \in 1..Len(trades) :
          LET cost == trades[n].shares * trades[n].buy_price
          IN  CapitalBefore(n) - (cost + TimesRate(cost, FEE_RATE)) >= 0

\* C19: every trade changes the capital by exactly its recorded profit, so
\* the capital is the starting capital plus the profits recorded so far
\* (final_capital at the end), and every trade is sized from the capital the
\* previous trade left.
C19_Accounting ==
    /\ pc \in {"pairs", "done"} =>
          /\ capital = initial_capital + ProfitUpTo(Len(trades))
          /\ \A n \in 1..Len(trades) :
                trades[n].shares
                    = SharesFor(CapitalBefore(n), trades[n].buy_price)
    /\ pc = "done" =>
          Result.final_capital = initial_capital + ProfitUpTo(Len(trades))

\* a finished run of two trades that both bought shares at a loss or a gain
C19_Witness ==
    /\ pc = "done" /\ Len(trades) >= 2
    /\ \A n \in 1..2 : trades[n].shares > 0 /\ trades[n].profit # 0

\* C20: while a position is open after a bar, its highest_price is strictly
\* below entry x (1 + PROFIT_TARGET) and its trailing stop strictly below
\* entry x (1 + PROFIT_TARGET) x 0.98.
C20_HighBelowTarget ==
    Open =>
        /\ position.highest_price * 100
              < position.buy_price * (100 + PROFIT_TARGET)
        /\ trailing_stop * 100
              < position.buy_price * (100 + PROFIT_TARGET) * (100 - TRAIL_PCT)

\* a position still open after a bar that set a new high
C20_Witness ==
    /\ Open /\ i > position.buy_date + 1
    /\ position.highest_price > position.buy_price
    /\ trailing_stop = TrailedStop(position.highest_price)

=============================================================================
